---- MODULE Spec2Model ----
(***************************************************************************)
(* Weighted Deficit Round-Robin (WDRR) channel scheduler of EnergyMe-Home, *)
(* as replicated by class WDRRScheduler in tests/test_wdrr_scheduler.py.   *)
(*                                                                         *)
(* Numbers.  The program computes with IEEE doubles.  The model computes   *)
(* with exact rationals: a "fraction" is a pair <<n, d>> in lowest terms   *)
(* with d > 0 (power, variability, weight), and a deficit is a "mixed      *)
(* number" [w |-> whole part, f |-> fraction in [0,1)], so that deficits   *)
(* of magnitude 10^9 stay inside TLC's 32-bit integers.  Rounding error of *)
(* the doubles is not modelled.                                            *)
(***************************************************************************)
EXTENDS Integers, FiniteSets, Sequences, TLC

VARIABLES
    active,         \* self.active: set of channel indices
    weight,         \* self.weight[i]: fraction
    deficit,        \* self.deficit[i]: mixed number
    prev_power,     \* self.prev_power[i]: fraction
    variability,    \* self.variability[i]: fraction
    power,          \* self.power[i]: fraction
    first_reading,  \* self._first_reading[i]: BOOLEAN
    pc,             \* position of the driver loop: "select", "record", "recompute"
    ch,             \* value returned by the last find_next_channel call (-1: none)
    counts,         \* run_scheduler's counts[ch]
    calls,          \* number of find_next_channel calls made so far
    envs,           \* number of set_power / set_active calls made so far
    wait,           \* wait[i]: find_next_channel calls since i was last returned or activated
    longest,        \* longest[i]: the greatest value wait[i] has had since i was activated
    recomputed      \* recalculate_weights has run since construction and since the last activation

vars == <<active, weight, deficit, prev_power, variability, power, first_reading,
          pc, ch, counts, calls, envs, wait, longest, recomputed>>

----------------------------------------------------------------------------
(* Bounds of the model *)

\* CHANNEL_COUNT is 17 in the program (16 mux channels + channel 0); the
\* model keeps channel 0 and CHANNEL_COUNT - 1 multiplexed channels.
CHANNEL_COUNT == 4

\* find_next_channel calls explored in one run
MaxCalls == 3

\* find_next_channel calls explored in one run with a fixed power profile
MaxFixedCalls == 24

\* find_next_channel calls explored in one run with varying reported powers
MaxVaryingCalls == 6

\* find_next_channel calls explored in one run on doubles
MaxDoubleCalls == 14

\* find_next_channel calls of each of the two phases of a run with a load change
MaxPhaseCalls == 11

\* find_next_channel calls explored in one run with one channel of varying power
MaxBoostCalls == 40

\* number of cycles after which a run with one channel of varying power counts
\* as a long run
BoostLongRun == 34

\* find_next_channel calls explored in one run with a reactivation
MaxLifeCalls == 3

\* find_next_channel calls explored in one run of five channels
MaxWideCalls == 30

\* find_next_channel calls of the run of five channels of equal power
MaxEqualCalls == 1000

\* set_power / set_active calls explored in one run
MaxEnv == 1

\* powers a channel can report
PowerValues == {-3, 0, 1}

Channels == 0 .. (CHANNEL_COUNT - 1)

\* a scheduler whose loops start at channel 0
SchedulableFromZero == 0 .. (CHANNEL_COUNT - 1)

\* range(1, CHANNEL_COUNT): the multiplexed channels the loops visit
Schedulable == 1 .. (CHANNEL_COUNT - 1)

----------------------------------------------------------------------------
(* Exact rational arithmetic *)

Abs(x) == IF x < 0 THEN -x ELSE x

RECURSIVE GCD(_, _)
GCD(a, b) == IF b = 0 THEN a ELSE GCD(b, a % b)

\* the fraction n/d in lowest terms, d > 0
Frac(n, d) ==
    LET s == IF d < 0 THEN -1 ELSE 1
        g == GCD(Abs(n), Abs(d))
    IN  <<(s * n) \div g, (s * d) \div g>>

FZero == <<0, 1>>
\* sums and products cancel common factors first, to keep every
\* intermediate value small
FAdd(a, b) ==
    LET g == GCD(a[2], b[2])
    IN  Frac(a[1] * (b[2] \div g) + b[1] * (a[2] \div g), (a[2] \div g) * b[2])
FNeg(a) == <<-a[1], a[2]>>
FSub(a, b) == FAdd(a, FNeg(b))
FMul(a, b) ==
    LET x == Frac(a[1], b[2])
        y == Frac(b[1], a[2])
    IN  <<x[1] * y[1], x[2] * y[2]>>
FDiv(a, b) == FMul(a, Frac(b[2], b[1]))
FAbs(a) == <<Abs(a[1]), a[2]>>
\* a/b < c/d for b, d > 0, by comparing whole parts and then the reciprocals
\* of the remainders (no product is formed)
RECURSIVE LessThan(_, _, _, _)
LessThan(a, b, c, d) ==
    LET q1 == a \div b
        q2 == c \div d
        r1 == a % b
        r2 == c % d
    IN  IF q1 # q2 THEN q1 < q2
        ELSE IF r2 = 0 THEN FALSE
        ELSE IF r1 = 0 THEN TRUE
        ELSE LessThan(d, r2, b, r1)
FLess(a, b) == LessThan(a[1], a[2], b[1], b[2])
FLeq(a, b) == ~FLess(b, a)
FPos(a) == a[1] > 0

\* sum of f[i] over the set S of channels, in increasing index order
RECURSIVE FSum(_, _)
FSum(f, S) ==
    IF S = {} THEN FZero
    ELSE LET m == CHOOSE x \in S : \A y \in S : y <= x
         IN  FAdd(FSum(f, S \ {m}), f[m])

\* mixed numbers: w + f with w an integer and 0 <= f < 1
MZero == [w |-> 0, f |-> FZero]
MInt(k) == [w |-> k, f |-> FZero]

\* m + a for a fraction a
MAddF(m, a) ==
    LET s == FAdd(m.f, a)
        fl == s[1] \div s[2]
    IN  [w |-> m.w + fl, f |-> Frac(s[1] - fl * s[2], s[2])]

\* m - 1.0
MDec(m) == [w |-> m.w - 1, f |-> m.f]

\* a > b
MGreater(a, b) == a.w > b.w \/ (a.w = b.w /\ FLess(b.f, a.f))

----------------------------------------------------------------------------
(* Constants of the program *)

WEIGHT_POWER_SHARE == Frac(4, 10)
WEIGHT_VARIABILITY == Frac(4, 10)
WEIGHT_MIN_BASE == Frac(1, 10)
VARIABILITY_EMA_ALPHA == Frac(3, 10)

\* best_def = -1e9, the value the scan for the highest deficit starts from
BEST_DEF_START == -1000000000


----------------------------------------------------------------------------
(* recalculate_weights *)

\* the channels the sums and the scan take into account: i in self.active
ActiveSchedulable == {i \in Schedulable : i \in active}

total_abs_power == FSum([i \in Channels |-> FAbs(power[i])], ActiveSchedulable)

total_variability == FSum(variability, ActiveSchedulable)

\* a power score taken from the signed power
power_score_signed(i) ==
    IF FPos(total_abs_power) THEN FDiv(power[i], total_abs_power) ELSE FZero

power_score(i) ==
    IF FPos(total_abs_power) THEN FDiv(FAbs(power[i]), total_abs_power) ELSE FZero

\* a variability score that shares a zero total evenly
var_score_even(i) ==
    IF FPos(total_variability) THEN FDiv(variability[i], total_variability) ELSE <<1, 1>>

var_score(i) ==
    IF FPos(total_variability) THEN FDiv(variability[i], total_variability) ELSE FZero

\* a weight without the base share
WeightWithoutBase(i) ==
    FAdd(FMul(WEIGHT_POWER_SHARE, power_score(i)),
         FMul(WEIGHT_VARIABILITY, var_score(i)))

\* the weight an active channel gets
WeightFormula(i) ==
    FAdd(FAdd(FMul(WEIGHT_POWER_SHARE, power_score(i)),
              FMul(WEIGHT_VARIABILITY, var_score(i))),
         WEIGHT_MIN_BASE)

\* a loop body that does not test whether the channel is active
RecalculatedWeightAnyChannel(i) == WeightFormula(i)

\* the body of the loop over range(1, CHANNEL_COUNT)
RecalculatedWeight(i) == IF i \notin active THEN FZero ELSE WeightFormula(i)

RecalculatedWeights ==
    [[i \in Channels |-> IF i \in Schedulable THEN RecalculatedWeight(i) ELSE weight[i]]
        EXCEPT ![0] = FZero]

----------------------------------------------------------------------------
(* find_next_channel *)

\* first loop: add weight to deficit, or clear the deficit of an inactive channel
CreditedDeficit(i) ==
    IF i \in active THEN MAddF(deficit[i], weight[i]) ELSE MZero

Credited ==
    [i \in Channels |-> IF i \in Schedulable THEN CreditedDeficit(i) ELSE deficit[i]]

\* a scan that does not test whether the channel is active
EligibleAnyChannel(i) == TRUE

\* the test "i in self.active" of the second loop
Eligible(i) == i \in active

\* second loop: scan of the channels of S in increasing index order, keeping
\* the first channel whose deficit is strictly above the best so far
RECURSIVE Scan(_, _, _, _)
Scan(d, S, best_ch, best_def) ==
    IF S = {} THEN best_ch
    ELSE LET i == CHOOSE x \in S : \A y \in S : x <= y
         IN  IF Eligible(i) /\ MGreater(d[i], best_def)
             THEN Scan(d, S \ {i}, i, d[i])
             ELSE Scan(d, S \ {i}, best_ch, best_def)

BestChannel(d) == Scan(d, Schedulable, -1, MInt(BEST_DEF_START))

\* a selection that is not paid for
DecrementedNot(d, best) == d

\* a selection that is paid for twice
DecrementedTwice(d, best) ==
    IF best # -1 THEN [d EXCEPT ![best] = MDec(MDec(d[best]))] ELSE d

\* third step: the selected channel pays one unit
Decremented(d, best) ==
    IF best # -1 THEN [d EXCEPT ![best] = MDec(d[best])] ELSE d

----------------------------------------------------------------------------
(* update_variability *)

\* a moving average that ignores the new sample
EmaDecayOnly(c, pw) ==
    FMul(FSub(<<1, 1>>, VARIABILITY_EMA_ALPHA), variability[c])

EmaUpdate(c, pw) ==
    FAdd(FMul(VARIABILITY_EMA_ALPHA, FAbs(FSub(pw[c], prev_power[c]))),
         FMul(FSub(<<1, 1>>, VARIABILITY_EMA_ALPHA), variability[c]))

----------------------------------------------------------------------------
(* State after construction: WDRRScheduler(active_channels) *)

Constructed(act) ==
    /\ active = act
    /\ weight = [i \in Channels |-> FZero]
    /\ deficit = [i \in Channels |-> MZero]
    /\ prev_power = [i \in Channels |-> FZero]
    /\ variability = [i \in Channels |-> FZero]
    /\ first_reading = [i \in Channels |-> TRUE]

DriverStart ==
    /\ pc = "select"
    /\ ch = -1
    /\ counts = [i \in Channels |-> 0]
    /\ calls = 0
    /\ envs = 0
    /\ wait = [i \in Channels |-> 0]
    /\ longest = [i \in Channels |-> 0]
    /\ recomputed = FALSE

Init ==
    /\ \E act \in SUBSET Channels : Constructed(act)
    /\ power = [i \in Channels |-> FZero]
    /\ DriverStart

----------------------------------------------------------------------------
(* The operations *)

\* a find_next_channel that also forgets the baseline of the channel it returns
FindNextChannelForgetting(limit) ==
    /\ pc = "select"
    /\ calls < limit
    /\ LET d == Credited
           best == BestChannel(d)
       IN  /\ deficit' = Decremented(d, best)
           /\ ch' = best
           /\ pc' = IF best # -1 THEN "record" ELSE "select"
           /\ counts' = IF best # -1 THEN [counts EXCEPT ![best] = @ + 1] ELSE counts
           /\ wait' = [i \in Channels |->
                         IF i = best \/ i \notin ActiveSchedulable THEN 0 ELSE wait[i] + 1]
           /\ longest' = [i \in Channels |->
                            IF i \notin ActiveSchedulable THEN 0
                            ELSE IF wait'[i] > longest[i] THEN wait'[i] ELSE longest[i]]
    /\ calls' = calls + 1
    /\ first_reading' = [i \in Channels |-> first_reading[i] \/ i = ch']
    /\ UNCHANGED <<active, weight, prev_power, variability, power, envs, recomputed>>

\* ch = scheduler.find_next_channel(); counts[ch] += 1 when ch != -1
FindNextChannelUpTo(limit) ==
    /\ pc = "select"
    /\ calls < limit
    /\ LET d == Credited
           best == BestChannel(d)
       IN  /\ deficit' = Decremented(d, best)
           /\ ch' = best
           /\ pc' = IF best # -1 THEN "record" ELSE "select"
           /\ counts' = IF best # -1 THEN [counts EXCEPT ![best] = @ + 1] ELSE counts
           /\ wait' = [i \in Channels |->
                         IF i = best \/ i \notin ActiveSchedulable THEN 0 ELSE wait[i] + 1]
           /\ longest' = [i \in Channels |->
                            IF i \notin ActiveSchedulable THEN 0
                            ELSE IF wait'[i] > longest[i] THEN wait'[i] ELSE longest[i]]
    /\ calls' = calls + 1
    /\ UNCHANGED <<active, weight, prev_power, variability, power, first_reading,
                   envs, recomputed>>

\* an update_variability(c) that treats every reading as a later one
VariabilityUpdatedNoBaseline(c, pw) ==
    /\ variability' = [variability EXCEPT ![c] = EmaUpdate(c, pw)]
    /\ prev_power' = [prev_power EXCEPT ![c] = pw[c]]
    /\ first_reading' = [first_reading EXCEPT ![c] = FALSE]

\* an update_variability(c) that takes the baseline of every channel
VariabilityUpdatedEvery(c, pw) ==
    IF first_reading[c]
    THEN /\ prev_power' = pw
         /\ first_reading' = [first_reading EXCEPT ![c] = FALSE]
         /\ UNCHANGED variability
    ELSE /\ variability' = [variability EXCEPT ![c] = EmaUpdate(c, pw)]
         /\ prev_power' = pw
         /\ UNCHANGED first_reading

\* update_variability(c) reading the powers pw
VariabilityUpdated(c, pw) ==
    IF first_reading[c]
    THEN /\ prev_power' = [prev_power EXCEPT ![c] = pw[c]]
         /\ first_reading' = [first_reading EXCEPT ![c] = FALSE]
         /\ UNCHANGED variability
    ELSE /\ variability' = [variability EXCEPT ![c] = EmaUpdate(c, pw)]
         /\ prev_power' = [prev_power EXCEPT ![c] = pw[c]]
         /\ UNCHANGED first_reading

\* scheduler.update_variability(ch)
UpdateVariability ==
    /\ pc = "record"
    /\ VariabilityUpdated(ch, power)
    /\ pc' = "recompute"
    /\ UNCHANGED <<active, weight, deficit, power, ch, counts, calls, envs, wait, longest,
                   recomputed>>

\* the driver reports the power p it observed on the channel it sampled:
\* scheduler.set_power(ch, p); scheduler.update_variability(ch)
RecordSample(p) ==
    /\ pc = "record"
    /\ power' = [power EXCEPT ![ch] = <<p, 1>>]
    /\ VariabilityUpdated(ch, power')
    /\ pc' = "recompute"
    /\ UNCHANGED <<active, weight, deficit, ch, counts, calls, envs, wait, longest,
                   recomputed>>

\* a recalculate_weights that also clears the deficits
RecalculateWeightsClearing ==
    /\ pc \in {"select", "recompute"}
    /\ weight' = RecalculatedWeights
    /\ deficit' = [i \in Channels |-> MZero]
    /\ pc' = "select"
    /\ recomputed' = TRUE
    /\ UNCHANGED <<active, prev_power, variability, power, first_reading,
                   ch, counts, calls, envs, wait, longest>>

\* scheduler.recalculate_weights(): the call that ends a cycle, and the call
\* the tests make before a run
RecalculateWeights ==
    /\ pc \in {"select", "recompute"}
    /\ weight' = RecalculatedWeights
    /\ pc' = "select"
    /\ recomputed' = TRUE
    /\ UNCHANGED <<active, deficit, prev_power, variability, power, first_reading,
                   ch, counts, calls, envs, wait, longest>>

\* a set_power that writes the power of every channel
SetPowerEvery(c, p) ==
    /\ pc = "select"
    /\ envs < MaxEnv
    /\ power' = [i \in Channels |-> <<p, 1>>]
    /\ envs' = envs + 1
    /\ UNCHANGED <<active, weight, deficit, prev_power, variability, first_reading,
                   pc, ch, counts, calls, wait, longest, recomputed>>

\* scheduler.set_power(c, p)
SetPower(c, p) ==
    /\ pc = "select"
    /\ envs < MaxEnv
    /\ power' = [power EXCEPT ![c] = <<p, 1>>]
    /\ envs' = envs + 1
    /\ UNCHANGED <<active, weight, deficit, prev_power, variability, first_reading,
                   pc, ch, counts, calls, wait, longest, recomputed>>

\* set_active(c, true): deficit, variability and has_baseline start afresh
Activate(c) ==
    /\ pc = "select"
    /\ envs < MaxEnv
    /\ c \notin active
    /\ active' = active \cup {c}
    /\ deficit' = [deficit EXCEPT ![c] = MZero]
    /\ variability' = [variability EXCEPT ![c] = FZero]
    /\ first_reading' = [first_reading EXCEPT ![c] = TRUE]
    /\ wait' = [wait EXCEPT ![c] = 0]
    /\ longest' = [longest EXCEPT ![c] = 0]
    /\ envs' = envs + 1
    /\ recomputed' = FALSE
    /\ UNCHANGED <<weight, prev_power, power, pc, ch, counts, calls>>

\* set_active(c, false): deficit and weight are zeroed at once
Deactivate(c) ==
    /\ pc = "select"
    /\ envs < MaxEnv
    /\ c \in active
    /\ active' = active \ {c}
    /\ deficit' = [deficit EXCEPT ![c] = MZero]
    /\ weight' = [weight EXCEPT ![c] = FZero]
    /\ wait' = [wait EXCEPT ![c] = 0]
    /\ longest' = [longest EXCEPT ![c] = 0]
    /\ envs' = envs + 1
    /\ UNCHANGED <<prev_power, variability, power, first_reading, pc, ch, counts,
                   calls, recomputed>>

FindNextChannel == FindNextChannelUpTo(MaxCalls)

Next ==
    \/ FindNextChannel
    \/ UpdateVariability
    \/ RecalculateWeights
    \/ \E c \in Channels, p \in PowerValues : SetPower(c, p)
    \/ \E c \in Channels : Activate(c)
    \/ \E c \in Channels : Deactivate(c)

Spec == Init /\ [][Next]_vars


----------------------------------------------------------------------------
(* run_scheduler on a scheduler of multiplexed channels whose powers were   *)
(* set once, before the run (the set_power calls of the tests' set-up)      *)

PowerProfiles(act) ==
    {f \in [Channels -> PowerValues \cup {0}] : \A i \in Channels \ act : f[i] = 0}

InitFixed ==
    /\ \E act \in SUBSET Schedulable :
          /\ Constructed(act)
          /\ \E f \in PowerProfiles(act) : power = [i \in Channels |-> <<f[i], 1>>]
    /\ DriverStart

FindNextChannelFixed == FindNextChannelUpTo(MaxFixedCalls)

NextFixed ==
    \/ FindNextChannelFixed
    \/ UpdateVariability
    \/ RecalculateWeights

SpecFixed == InitFixed /\ [][NextFixed]_vars

----------------------------------------------------------------------------
(* the driver loop with a new power reported at every sample *)

InitVarying ==
    /\ \E act \in SUBSET Schedulable : Constructed(act)
    /\ power = [i \in Channels |-> FZero]
    /\ DriverStart

FindNextChannelVarying == FindNextChannelUpTo(MaxVaryingCalls)

NextVarying ==
    \/ FindNextChannelVarying
    \/ \E p \in PowerValues : RecordSample(p)
    \/ RecalculateWeights

SpecVarying == InitVarying /\ [][NextVarying]_vars


----------------------------------------------------------------------------
(* A scheduler that has been running for a long time.                       *)
(*                                                                          *)
(* run_scheduler on WDRRScheduler([c]) with every power left at 0: the      *)
(* first find_next_channel adds the weight 0 and takes 1.0 from deficit[c], *)
(* update_variability(c) records the baseline, recalculate_weights sets     *)
(* weight[c] = 0.1 (0.1 already when the tests' call of recalculate_weights *)
(* preceded the run: warm = 1).  Every later cycle adds 0.1 and takes 1.0.  *)
(* After k cycles that returned c: deficit[c] = -k + (k - 1 + warm) / 10.   *)

IdleDeficit(k, warm) ==
    [w |-> (0 - k) + ((k - 1 + warm) \div 10),
     f |-> Frac((k - 1 + warm) % 10, 10)]

AfterIdleRun(c, k, warm) ==
    /\ active = {c}
    /\ weight = [i \in Channels |-> IF i = c THEN WEIGHT_MIN_BASE ELSE FZero]
    /\ deficit = [i \in Channels |-> IF i = c THEN IdleDeficit(k, warm) ELSE MZero]
    /\ prev_power = [i \in Channels |-> FZero]
    /\ variability = [i \in Channels |-> FZero]
    /\ power = [i \in Channels |-> FZero]
    /\ first_reading = [i \in Channels |-> i # c]

\* the number of cycles of a cold idle run after which the deficit plus the
\* weight is no longer above BEST_DEF_START: -k + (k - 1)/10 + 1/10 <= -10^9
IdleCyclesToFloor == ((0 - BEST_DEF_START) \div 9) * 10 + 2

\* a new run_scheduler starts on a scheduler left by an idle run
InitDrift ==
    /\ \E c \in Schedulable, k \in {1, IdleCyclesToFloor - 1, IdleCyclesToFloor} :
          AfterIdleRun(c, k, 0)
    /\ pc = "select"
    /\ ch = -1
    /\ counts = [i \in Channels |-> 0]
    /\ calls = 0
    /\ envs = 0
    /\ wait = [i \in Channels |-> 0]
    /\ longest = [i \in Channels |-> 0]
    /\ recomputed = TRUE

SpecDrift == InitDrift /\ [][Next]_vars

\* the closed form is the state the cycles of an idle run produce
IdleRunClosedForm ==
    \A c \in Schedulable :
        (/\ active = {c}
         /\ power = [i \in Channels |-> FZero]
         /\ pc = "select"
         /\ calls >= 1)
        => \E warm \in {0, 1} : AfterIdleRun(c, calls, warm)

----------------------------------------------------------------------------
(* Properties *)

NumActive == Cardinality(ActiveSchedulable)

AllSelectedOnce == \A c \in ActiveSchedulable : counts[c] >= 1

FirstWaitLimit(n) == (11 * (n - 1)) \div 2
WaitLimit(n) == 10 * (n - 1)

WeightFloor == \A i \in ActiveSchedulable : FLeq(WEIGHT_MIN_BASE, weight[i])

\* C3 as stated: at every point in time, right after construction included,
\* weight[i] >= min_base_coeff > 0 for every active channel i.
C3_WeightFloorAlways == FPos(WEIGHT_MIN_BASE) /\ WeightFloor

\* C3 as amended: once recalculate_weights has run, and until a channel is
\* activated, weight[i] >= min_base_coeff > 0 for every active channel i of
\* 1 .. CHANNEL_COUNT - 1.
C3_WeightFloorOnceRecomputed ==
    recomputed => (FPos(WEIGHT_MIN_BASE) /\ WeightFloor)

\* weights recomputed, one channel at the floor and one above it
C3_Witness ==
    /\ recomputed
    /\ \E i, j \in ActiveSchedulable :
          weight[i] = WEIGHT_MIN_BASE /\ FLess(WEIGHT_MIN_BASE, weight[j])

\* C4: find_next_channel never returns a channel that is not active.
C4_InactiveNeverReturned ==
    [][calls' = calls + 1 => (ch' = -1 \/ ch' \in active)]_vars

\* a channel that was returned earlier is inactive now, and find_next_channel
\* has just returned another one
C4_Witness ==
    /\ pc = "record"
    /\ \E i \in Schedulable \ active : counts[i] > 0 /\ ch # i

\* C5: after every operation the deficit of every inactive channel is 0.
C5_InactiveDeficitZero == \A i \in Channels \ active : deficit[i] = MZero

\* a channel that was returned earlier (its deficit was not 0) is inactive
C5_Witness ==
    \E i \in Schedulable \ active : counts[i] > 0 /\ calls >= 2

\* C6: after every operation the weight of every inactive channel is 0.
C6_InactiveWeightZero == \A i \in Channels \ active : weight[i] = FZero

\* weights recomputed while an inactive channel holds a non-zero power,
\* next to an active channel
C6_Witness ==
    /\ recomputed
    /\ ActiveSchedulable # {}
    /\ \E i \in Schedulable \ active : power[i] # FZero

\* C7: channel 0 never has a weight or a deficit other than 0 and is never
\* returned by find_next_channel.
C7_ChannelZeroOutside ==
    /\ weight[0] = FZero
    /\ deficit[0] = MZero
    /\ ch # 0

\* channel 0 is in the active set with a non-zero power, weights were
\* recomputed and find_next_channel was called
C7_Witness ==
    /\ 0 \in active
    /\ power[0] # FZero
    /\ recomputed
    /\ calls > 0

\* a step that is a call of find_next_channel
IsFind == calls' = calls + 1

\* i is the active channel of greatest deficit once the weights are added,
\* and the lowest-indexed one among equals
GreatestCredited(i) ==
    /\ i \in ActiveSchedulable
    /\ \A j \in ActiveSchedulable :
          \/ MGreater(Credited[i], Credited[j])
          \/ (Credited[i] = Credited[j] /\ i <= j)

\* C8: when a multiplexed channel is active, find_next_channel returns the
\* active channel whose deficit, weight added, is greatest, the lowest index
\* among equals.
C8_SelectionRule ==
    [][(IsFind /\ ActiveSchedulable # {}) => GreatestCredited(ch')]_vars

\* C9: find_next_channel returns -1 exactly when no multiplexed channel is
\* active; then it decrements no deficit.
C9_SentinelIffNoneActive ==
    [][IsFind =>
         IF ActiveSchedulable = {}
         THEN ch' = -1 /\ deficit' = Credited
         ELSE ch' \in ActiveSchedulable]_vars

\* C10: when exactly one multiplexed channel is active, every call of
\* find_next_channel returns it.
C10_SingleChannelAlwaysReturned ==
    [][(IsFind /\ NumActive = 1) => ActiveSchedulable = {ch'}]_vars

----------------------------------------------------------------------------
(* recalculate_weights: the values it leaves *)

\* the driver is between two cycles and recalculate_weights was the last
\* operation to change the scheduler
WeightsFresh == pc = "select" /\ recomputed

AbsPower(i) == IF power[i][1] < 0 THEN <<0 - power[i][1], power[i][2]>> ELSE power[i]

SumAbsPower == FSum([i \in Channels |-> AbsPower(i)], ActiveSchedulable)

SumVariability == FSum(variability, ActiveSchedulable)

\* weight[i] - 0.1 = 0.4 * |power_i| / sum|power| + 0.4 * var_i / sum var,
\* a ratio over a zero total counting as 0; stated without a division
HasClosedFormWeight(i) ==
    LET w == FSub(weight[i], WEIGHT_MIN_BASE)
        x == FMul(WEIGHT_POWER_SHARE, AbsPower(i))
        y == FMul(WEIGHT_VARIABILITY, variability[i])
    IN  CASE SumAbsPower = FZero /\ SumVariability = FZero -> w = FZero
          [] SumAbsPower # FZero /\ SumVariability = FZero -> FMul(w, SumAbsPower) = x
          [] SumAbsPower = FZero /\ SumVariability # FZero -> FMul(w, SumVariability) = y
          [] OTHER -> FMul(FMul(w, SumAbsPower), SumVariability)
                         = FAdd(FMul(x, SumVariability), FMul(y, SumAbsPower))

\* three active channels whose powers are in the proportion 300 : 100 : 100
\* and whose variability is zero
ThreeToOneToOne ==
    /\ ActiveSchedulable = {1, 2, 3}
    /\ AbsPower(1) = <<3, 1>> /\ AbsPower(2) = <<1, 1>> /\ AbsPower(3) = <<1, 1>>
    /\ \A i \in ActiveSchedulable : variability[i] = FZero

\* C11: after recalculate_weights every active channel i of 1..N-1 has
\* weight[i] = 0.4 * (|power_i| / sum of |power| over the active channels)
\*           + 0.4 * (variability_i / sum of variability over the active channels)
\*           + 0.1, where a ratio over a zero total counts as 0; powers in
\* the proportion (300, 100, 100) with zero variability give 0.34, 0.18, 0.18.
C11_WeightFormulaExact ==
    WeightsFresh =>
        /\ \A i \in ActiveSchedulable : HasClosedFormWeight(i)
        /\ ThreeToOneToOne =>
              weight[1] = <<17, 50>> /\ weight[2] = <<9, 50>> /\ weight[3] = <<9, 50>>

\* recalculate_weights has run on three active channels of different powers
\* and different non-zero variability, one of the powers being negative
C11_Witness ==
    /\ WeightsFresh
    /\ ActiveSchedulable = {1, 2, 3}
    /\ SumAbsPower # FZero /\ SumVariability # FZero
    /\ \E i, j \in ActiveSchedulable :
          /\ power[i][1] < 0
          /\ AbsPower(i) # AbsPower(j)
          /\ variability[i] # variability[j]
          /\ variability[i] # FZero /\ variability[j] # FZero
    /\ \A i \in ActiveSchedulable : HasClosedFormWeight(i)

\* the state of the example: recalculate_weights has run on (300, 100, 100)
C11_ExampleReached == WeightsFresh /\ ThreeToOneToOne /\ weight[1] = <<17, 50>>

\* C12: recalculate_weights does not fail on a zero total: with a zero total
\* of |power| the power score of every channel is 0 and the weight is made of
\* the variability share and the base alone; likewise for a zero total of
\* variability; with both totals zero every active weight is exactly 0.1.
C12_ZeroTotalsAreStates ==
    WeightsFresh =>
        /\ SumAbsPower = FZero =>
              \A i \in ActiveSchedulable :
                  /\ power_score(i) = FZero
                  /\ weight[i] = FAdd(FMul(WEIGHT_VARIABILITY, var_score(i)), WEIGHT_MIN_BASE)
        /\ SumVariability = FZero =>
              \A i \in ActiveSchedulable :
                  /\ var_score(i) = FZero
                  /\ weight[i] = FAdd(FMul(WEIGHT_POWER_SHARE, power_score(i)), WEIGHT_MIN_BASE)
        /\ (SumAbsPower = FZero /\ SumVariability = FZero) =>
              \A i \in ActiveSchedulable : weight[i] = <<1, 10>>

\* recalculate_weights has run on several active channels whose powers are
\* all zero while their variability is not: one weight is the base, one is above
C12_Witness ==
    /\ WeightsFresh
    /\ calls >= 3
    /\ SumAbsPower = FZero /\ SumVariability # FZero
    /\ \E i, j \in ActiveSchedulable : weight[i] = <<1, 10>> /\ weight[j] # <<1, 10>>

\* recalculate_weights has run at the end of a cycle on channels that are all at zero
C12_BothZeroReached ==
    /\ WeightsFresh /\ calls >= 2 /\ NumActive >= 2
    /\ SumAbsPower = FZero /\ SumVariability = FZero
    /\ \A i \in ActiveSchedulable : weight[i] = <<1, 10>>

----------------------------------------------------------------------------
(* The deficits as the doubles they are.                                    *)
(*                                                                          *)
(* run_scheduler on channels whose powers are all 0.0: every weight is the  *)
(* double 0.1 after recalculate_weights, and find_next_channel only adds    *)
(* the weight to a deficit and takes 1.0 from one.  Every double of such a  *)
(* run is a multiple of 2^-56 below 16 in magnitude; it is kept as the      *)
(* integer s = hi * 2^29 + lo (0 <= lo < 2^29) it is the multiple by, and   *)
(* an addition is the exact sum rounded to 53 significant bits, ties to     *)
(* even.                                                                    *)

DLimb == 2^29

DZero == [hi |-> 0, lo |-> 0]

\* 1.0 = 2^56 * 2^-56
DOne == [hi |-> 2^27, lo |-> 0]

\* 0.4 * 0.0 + 0.4 * 0.0 + 0.1 = 0.1 = 0x1.999999999999ap-4
\*   = 7205759403792794 * 2^-56 = (13421772 * 2^29 + 429496730) * 2^-56
DWeightMinBase == [hi |-> 13421772, lo |-> 429496730]

DNeg(a) ==
    IF a.lo = 0 THEN [hi |-> 0 - a.hi, lo |-> 0]
    ELSE [hi |-> 0 - a.hi - 1, lo |-> DLimb - a.lo]

DExactSum(a, b) ==
    [hi |-> a.hi + b.hi + ((a.lo + b.lo) \div DLimb), lo |-> (a.lo + b.lo) % DLimb]

\* the bits of m >= 0 beyond the 53 most significant ones
DroppedBits(m) ==
    CHOOSE k \in 0..7 :
        /\ (m.hi \div 2^k) < 2^24
        /\ (k = 0 \/ (m.hi \div 2^(k - 1)) >= 2^24)

\* m >= 0 rounded to 53 significant bits, ties to even
DRound(m) ==
    LET step == 2^DroppedBits(m)
        r == m.lo % step
        base == m.lo - r
        up == \/ 2 * r > step
              \/ (2 * r = step /\ (base \div step) % 2 = 1)
        l == IF up THEN base + step ELSE base
    IN  [hi |-> m.hi + (l \div DLimb), lo |-> l % DLimb]

\* a + b in double arithmetic
DAdd(a, b) ==
    LET e == DExactSum(a, b)
    IN  IF e.hi < 0 THEN DNeg(DRound(DNeg(e))) ELSE DRound(e)

\* a > b
DGreater(a, b) == a.hi > b.hi \/ (a.hi = b.hi /\ a.lo > b.lo)

\* a > -1e9, the value best_def starts from
DAboveStart(a) ==
    \/ a.hi \div 2^27 > BEST_DEF_START
    \/ (a.hi \div 2^27 = BEST_DEF_START /\ (a.hi % 2^27 # 0 \/ a.lo # 0))

\* first loop of find_next_channel
CreditedDouble ==
    [i \in Channels |->
        IF i \in Schedulable
        THEN IF i \in active THEN DAdd(deficit[i], weight[i]) ELSE DZero
        ELSE deficit[i]]

\* second loop of find_next_channel
RECURSIVE ScanDouble(_, _, _)
ScanDouble(d, S, best_ch) ==
    IF S = {} THEN best_ch
    ELSE LET i == CHOOSE x \in S : \A y \in S : x <= y
         IN  IF /\ Eligible(i)
                /\ IF best_ch = -1 THEN DAboveStart(d[i]) ELSE DGreater(d[i], d[best_ch])
             THEN ScanDouble(d, S \ {i}, i)
             ELSE ScanDouble(d, S \ {i}, best_ch)

\* self.deficit[best_ch] -= 1.0
DecrementedDouble(d, best) ==
    IF best # -1 THEN [d EXCEPT ![best] = DAdd(d[best], DNeg(DOne))] ELSE d

InitDouble ==
    /\ \E act \in SUBSET Schedulable : active = act
    /\ weight = [i \in Channels |-> DZero]
    /\ deficit = [i \in Channels |-> DZero]
    /\ prev_power = [i \in Channels |-> FZero]
    /\ variability = [i \in Channels |-> FZero]
    /\ first_reading = [i \in Channels |-> TRUE]
    /\ power = [i \in Channels |-> FZero]
    /\ DriverStart

FindNextChannelDouble ==
    /\ pc = "select"
    /\ calls < MaxDoubleCalls
    /\ LET d == CreditedDouble
           best == ScanDouble(d, Schedulable, -1)
       IN  /\ deficit' = DecrementedDouble(d, best)
           /\ ch' = best
           /\ pc' = IF best # -1 THEN "record" ELSE "select"
           /\ counts' = IF best # -1 THEN [counts EXCEPT ![best] = @ + 1] ELSE counts
           /\ wait' = [i \in Channels |->
                         IF i = best \/ i \notin ActiveSchedulable THEN 0 ELSE wait[i] + 1]
           /\ longest' = [i \in Channels |->
                            IF i \notin ActiveSchedulable THEN 0
                            ELSE IF wait'[i] > longest[i] THEN wait'[i] ELSE longest[i]]
    /\ calls' = calls + 1
    /\ UNCHANGED <<active, weight, prev_power, variability, power, first_reading,
                   envs, recomputed>>

\* recalculate_weights when the totals of |power| and of variability are 0.0
RecalculateWeightsDouble ==
    /\ pc \in {"select", "recompute"}
    /\ weight' = [i \in Channels |->
                     IF i \in ActiveSchedulable
                     THEN DAdd(DAdd(DZero, DZero), DWeightMinBase)
                     ELSE DZero]
    /\ pc' = "select"
    /\ recomputed' = TRUE
    /\ UNCHANGED <<active, deficit, prev_power, variability, power, first_reading,
                   ch, counts, calls, envs, wait, longest>>

NextDouble ==
    \/ FindNextChannelDouble
    \/ UpdateVariability
    \/ RecalculateWeightsDouble

SpecDouble == InitDouble /\ [][NextDouble]_vars

----------------------------------------------------------------------------
(* Equal loads *)

EqualLoads ==
    /\ \A i, j \in ActiveSchedulable : AbsPower(i) = AbsPower(j)
    /\ \A i \in ActiveSchedulable : variability[i] = FZero

\* the active channel that follows c in increasing index order, cyclically
NextInCycle(c) ==
    LET above == {i \in ActiveSchedulable : i > c}
        from == IF above = {} THEN ActiveSchedulable ELSE above
    IN  CHOOSE x \in from : \A y \in from : x <= y

CountsWithinOne == \A i, j \in ActiveSchedulable : counts[i] - counts[j] <= 1

\* C13 (as stated): with equal fixed |power| (all zero included) and zero
\* variability, successive find_next_channel calls return the active
\* channels cyclically in increasing index order, and the counts of two
\* active channels never differ by more than 1.
C13_CyclicAscendingOrder ==
    [][(IsFind /\ EqualLoads /\ ActiveSchedulable # {})
          => (ch' = NextInCycle(ch) /\ CountsWithinOne')]_vars

\* C13 (amended): with equal fixed |power| and zero variability the first
\* |active| calls return the active channels in increasing index order, and
\* after any number of cycles the counts of two active channels differ by at
\* most 1; the order inside the later rounds is not fixed.
C13_EqualLoadsCountsWithinOne ==
    EqualLoads =>
        /\ CountsWithinOne
        /\ calls <= NumActive =>
              \A i, j \in ActiveSchedulable : (j < i /\ counts[i] >= 1) => counts[j] >= 1

\* two active channels at zero power, and one of them has just been
\* returned twice in a row: the other one waits for the second call
C13_Witness ==
    /\ EqualLoads
    /\ NumActive = 2
    /\ pc = "select"
    /\ calls > NumActive
    /\ \E i \in ActiveSchedulable : wait[i] = 2
    /\ CountsWithinOne

----------------------------------------------------------------------------
(* Proportionality *)

EqualVariability == \A i, j \in ActiveSchedulable : variability[i] = variability[j]

\* the difference of the weights of i and j that their powers make:
\* 0.4 * (|power_i| - |power_j|) / sum of |power|
PowerWeightGap(i, j) ==
    FMul(WEIGHT_POWER_SHARE, FDiv(FSub(AbsPower(i), AbsPower(j)), SumAbsPower))

\* the deficits of two active channels stay within this distance, whatever
\* the length of the run
DeficitSpread == <<2, 1>>

\* a run is long enough for the pair (i, j) once the credits it gave i exceed
\* the credits it gave j by the spread; the first call of a run on a new
\* scheduler credits nothing
LongEnoughFor(i, j) ==
    FLeq(DeficitSpread, FMul(<<calls - 1, 1>>, PowerWeightGap(i, j)))

\* C14: with fixed powers and equal variability, for active channels i and j
\* with |power_i| > |power_j| the count of i is at least the count of j at
\* the end of every sufficiently long run: count_i - count_j is never less
\* than (calls - 1) * (weight_i - weight_j) - 2, so that count_i >= count_j
\* once (calls - 1) * (weight_i - weight_j) >= 2.
C14_Proportionality ==
    (pc = "select" /\ calls >= 1 /\ EqualVariability) =>
        \A i, j \in ActiveSchedulable :
            FLess(AbsPower(j), AbsPower(i)) =>
                /\ FLeq(FSub(FMul(<<calls - 1, 1>>, PowerWeightGap(i, j)),
                             DeficitSpread),
                        <<counts[i] - counts[j], 1>>)
                /\ LongEnoughFor(i, j) => counts[i] >= counts[j]

\* the channel of higher power has the higher index and was behind after
\* the first call; the run is long enough and it is now ahead
C14_Witness ==
    /\ pc = "select"
    /\ EqualVariability
    /\ NumActive >= 2
    /\ \E i, j \in ActiveSchedulable :
          /\ j < i
          /\ \A k \in ActiveSchedulable : j <= k
          /\ FLess(AbsPower(j), AbsPower(i))
          /\ LongEnoughFor(i, j)
          /\ counts[i] > counts[j]

----------------------------------------------------------------------------
(* Selection frequency under fixed weights *)

SumWeights == FSum(weight, ActiveSchedulable)

\* the share of the cycles the weights promise to channel i when the
\* frequencies are to be proportional to the weights
ProportionalShare(i) == FDiv(weight[i], SumWeights)

\* the share of the cycles channel i gets: every cycle credits weight[i] and
\* takes 1.0 from one channel, so that all deficits drift by
\* (sum of weights - 1) / |active| per cycle
DriftFreeShare(i) ==
    FAdd(weight[i], FDiv(FSub(<<1, 1>>, SumWeights), <<NumActive, 1>>))

CountTolerance == <<2, 1>>

CountNear(i, share) ==
    FLeq(FAbs(FSub(<<counts[i], 1>>, FMul(<<calls, 1>>, share))), CountTolerance)

CycleEndFixedWeights == pc = "select" /\ recomputed /\ calls >= 1

\* C15 (as stated): under fixed weights the count of active channel i after
\* K cycles stays within a constant of K * weight[i] / (sum of the active weights).
C15_FrequencyProportionalToWeight ==
    CycleEndFixedWeights => \A i \in ActiveSchedulable : CountNear(i, ProportionalShare(i))

\* C15 (amended): under fixed weights the count of active channel i after K
\* cycles stays within a constant of
\* K * (weight[i] + (1 - sum of the active weights) / |active|).
C15_FrequencyIsWeightPlusEvenShare ==
    CycleEndFixedWeights => \A i \in ActiveSchedulable : CountNear(i, DriftFreeShare(i))

\* a run of 20 cycles on weights that do not sum to 1: the count of a
\* channel is near its drift-free share and away from its proportional share
C15_Witness ==
    /\ CycleEndFixedWeights
    /\ calls >= 20
    /\ NumActive >= 2
    /\ SumWeights # <<1, 1>>
    /\ \E i \in ActiveSchedulable :
          CountNear(i, DriftFreeShare(i)) /\ ~CountNear(i, ProportionalShare(i))

----------------------------------------------------------------------------
(* Two runs of run_scheduler on one scheduler, a change of load in between: *)
(* the reported power of one channel changes and another channel becomes    *)
(* the one of greatest |power| (test_sudden_load_change).                   *)

\* channel c has the greatest |power| of the active channels under powers pw
DominantUnder(pw, c) ==
    /\ c \in ActiveSchedulable
    /\ \A j \in ActiveSchedulable \ {c} : FLess(FAbs(pw[j]), FAbs(pw[c]))

Dominant(c) == DominantUnder(power, c)

\* the first run is over: set_power(c, p) moves the dominance to another
\* channel; recalculate_weights follows, then a new run_scheduler
LoadChange(c, p) ==
    /\ pc = "select"
    /\ envs = 0
    /\ calls = MaxPhaseCalls
    /\ c \in ActiveSchedulable
    /\ power' = [power EXCEPT ![c] = <<p, 1>>]
    /\ \E a, b \in ActiveSchedulable :
          a # b /\ DominantUnder(power, a) /\ DominantUnder(power', b)
    /\ pc' = "recompute"
    /\ counts' = [i \in Channels |-> 0]
    /\ calls' = 0
    /\ envs' = 1
    /\ UNCHANGED <<active, weight, deficit, prev_power, variability, first_reading,
                   ch, wait, longest, recomputed>>

FindNextChannelPhase == FindNextChannelUpTo(MaxPhaseCalls)

NextPhases ==
    \/ FindNextChannelPhase
    \/ UpdateVariability
    \/ RecalculateWeights
    \/ \E c \in Channels, p \in PowerValues \cup {0} : LoadChange(c, p)

SpecPhases == InitFixed /\ [][NextPhases]_vars

RECURSIVE CountSum(_)
CountSum(S) ==
    IF S = {} THEN 0
    ELSE LET i == CHOOSE x \in S : TRUE IN counts[i] + CountSum(S \ {i})

\* counts[c] is above the average count of the other active channels
AboveAverageOfOthers(c) ==
    counts[c] * (NumActive - 1) > CountSum(ActiveSchedulable \ {c})

\* the deficits of two channels are within DeficitSpread of one another at
\* the start and at the end of a phase: the phase is long enough for (i, j)
\* once its credits to i exceed its credits to j by twice the spread
PhaseSlack == FAdd(DeficitSpread, DeficitSpread)

PhaseLongEnoughFor(i, j) ==
    FLess(PhaseSlack, FMul(<<calls, 1>>, PowerWeightGap(i, j)))

\* C16 (as stated): in either phase the channel of dominant power is
\* selected more often than the average of the other channels by the end of
\* a phase that is long enough for every other channel, and no active
\* channel has zero selections in a phase of more than 10 * (|active| - 1) cycles.
C16_DominantAboveAverage ==
    (pc = "select" /\ calls >= 1) =>
        /\ \A c \in ActiveSchedulable :
              (/\ Dominant(c)
               /\ NumActive >= 2
               /\ \A j \in ActiveSchedulable \ {c} : PhaseLongEnoughFor(c, j))
                 => AboveAverageOfOthers(c)
        /\ \A i \in ActiveSchedulable : counts[i] = 0 => calls <= WaitLimit(NumActive)

\* C16 (amended): in either phase the channel of dominant power is selected
\* more often than every active channel whose variability is zero (whose
\* reported power has not changed) by the end of a phase that is long enough
\* for the two: count_c - count_j >= calls * (weight gap of the powers) - 4;
\* and no active channel has zero selections in a phase of more than
\* 10 * (|active| - 1) cycles.
C16_DominantAboveSteadyChannels ==
    (pc = "select" /\ calls >= 1) =>
        /\ \A c \in ActiveSchedulable : Dominant(c) =>
              \A j \in ActiveSchedulable \ {c} : variability[j] = FZero =>
                  /\ FLeq(FSub(FMul(<<calls, 1>>, PowerWeightGap(c, j)), PhaseSlack),
                          <<counts[c] - counts[j], 1>>)
                  /\ PhaseLongEnoughFor(c, j) => counts[c] > counts[j]
        /\ \A i \in ActiveSchedulable : counts[i] = 0 => calls <= WaitLimit(NumActive)

\* the end of the second phase: the new dominant channel is ahead of a
\* channel whose power did not change, and not ahead of the channel whose
\* power dropped
C16_Witness ==
    /\ pc = "select"
    /\ envs = 1
    /\ calls = MaxPhaseCalls
    /\ \E b, a, j \in ActiveSchedulable :
          /\ Dominant(b)
          /\ a # b /\ j # b /\ a # j
          /\ variability[a] # FZero
          /\ variability[j] = FZero
          /\ PhaseLongEnoughFor(b, j) /\ PhaseLongEnoughFor(b, a)
          /\ counts[b] > counts[j]
          /\ counts[b] <= counts[a]

----------------------------------------------------------------------------
(* The driver loop of test_variability_boost: every active channel starts   *)
(* at the same power; after each selection of the varying channel (the      *)
(* test's channel 1, the lowest active channel) the driver reports a new    *)
(* power for it; the other channels keep their power.                       *)
(*                                                                          *)
(* The reported powers are chosen so that the moving average stays an       *)
(* integer however long the run is: the first change is by 10               *)
(* (0.3 * 10 = 3) and every later change is by 3 (0.3 * 3 + 0.7 * 3 = 3).   *)

\* the power every channel starts at (100.0 in the test)
BoostStart == 10

\* the channel whose reported power changes
VaryingChannel == CHOOSE x \in ActiveSchedulable : \A y \in ActiveSchedulable : x <= y

\* the powers the driver may report next for the varying channel, after p
ReportedAfter(p) ==
    CASE p = BoostStart -> {BoostStart - 10, BoostStart + 10}
      [] p = BoostStart - 10 -> {BoostStart - 7}
      [] p = BoostStart - 7 -> {BoostStart - 10}
      [] p = BoostStart + 10 -> {BoostStart + 7, BoostStart + 13}
      [] OTHER -> {BoostStart + 10}

InitBoost ==
    /\ \E act \in SUBSET Schedulable :
          /\ Cardinality(act) >= 2
          /\ Constructed(act)
          /\ power = [i \in Channels |-> IF i \in act THEN <<BoostStart, 1>> ELSE FZero]
    /\ DriverStart

FindNextChannelBoost == FindNextChannelUpTo(MaxBoostCalls)

\* a channel of constant power was selected: scheduler.update_variability(ch)
SampleSteady ==
    /\ ch # VaryingChannel
    /\ UpdateVariability

\* the varying channel was selected: scheduler.update_variability(ch), then
\* scheduler.set_power(ch, p) with a power p other than its current one
SampleVarying(p) ==
    /\ pc = "record"
    /\ ch = VaryingChannel
    /\ p \in ReportedAfter(power[ch][1])
    /\ VariabilityUpdated(ch, power)
    /\ power' = [power EXCEPT ![ch] = <<p, 1>>]
    /\ pc' = "recompute"
    /\ UNCHANGED <<active, weight, deficit, ch, counts, calls, envs, wait, longest, recomputed>>

NextBoost ==
    \/ FindNextChannelBoost
    \/ SampleSteady
    \/ \E p \in 0 .. (2 * BoostStart + 3) : SampleVarying(p)
    \/ RecalculateWeights

SpecBoost == InitBoost /\ [][NextBoost]_vars

\* the varying channel has been sampled twice, so that one change of its
\* power has entered its variability, and the weights were recomputed since
Boosted == pc = "select" /\ recomputed /\ counts[VaryingChannel] >= 2

\* C17: among channels of equal initial power, the channel whose reported
\* power changes at each of its own selections is, at the end of every cycle
\* of a long run, selected more often than the average of the channels of
\* constant power, and each of those has been selected at least once as soon
\* as the run has |active| cycles; from its second sample on the varying
\* channel is the only one with variability and has the greatest weight.
C17_VariabilityBoost ==
    /\ (pc = "select" /\ calls >= BoostLongRun) => AboveAverageOfOthers(VaryingChannel)
    /\ (pc = "select" /\ calls >= NumActive) =>
           \A j \in ActiveSchedulable \ {VaryingChannel} : counts[j] >= 1
    /\ Boosted =>
           /\ FPos(variability[VaryingChannel])
           /\ \A j \in ActiveSchedulable \ {VaryingChannel} :
                 /\ variability[j] = FZero
                 /\ FLeq(weight[j], weight[VaryingChannel])

\* the end of a long run in which the varying channel reports less power
\* than every other channel and is ahead of each of them all the same
C17_Witness ==
    /\ pc = "select"
    /\ calls >= BoostLongRun
    /\ Boosted
    /\ AboveAverageOfOthers(VaryingChannel)
    /\ \A j \in ActiveSchedulable \ {VaryingChannel} :
          /\ FLess(AbsPower(VaryingChannel), AbsPower(j))
          /\ counts[j] >= 1
          /\ counts[VaryingChannel] > counts[j]

----------------------------------------------------------------------------
(* The three weight coefficients the scheduler is built with *)

CoefficientSum == FAdd(FAdd(WEIGHT_POWER_SHARE, WEIGHT_VARIABILITY), WEIGHT_MIN_BASE)

\* the scheduler has operated: it made a selection or computed weights
HasOperated == calls >= 1 \/ recomputed

\* C18: a scheduler that operates has weight coefficients that sum to 1
\* (a configuration whose coefficients do not sum to 1 is rejected, so that
\* no selection and no weight computation is ever made under it).
C18_CoefficientsSumToOne == HasOperated => CoefficientSum = <<1, 1>>

----------------------------------------------------------------------------
(* update_variability (record_sample), step by step *)

\* the step is the sampling of the channel just selected
IsSample == pc = "record" /\ pc' = "recompute"

\* the samples of channel i taken so far
Samples(i) == IF pc = "record" /\ ch = i THEN counts[i] - 1 ELSE counts[i]

\* a sample of a channel without baseline records the observed power as
\* prev_power, sets the baseline flag and leaves every variability as it is
BaselineStep ==
    (IsSample /\ first_reading[ch]) =>
        /\ prev_power'[ch] = power'[ch]
        /\ ~first_reading'[ch]
        /\ variability' = variability
        /\ variability'[ch] = FZero

\* the variability of a channel changes only by a sample of that channel
\* taken when it had a baseline already; an activation sets it to zero
VariabilityNeedsBaseline ==
    \A i \in Channels :
        variability'[i] # variability[i] =>
            \/ IsSample /\ ch = i /\ ~first_reading[i]
            \/ i \notin active /\ i \in active' /\ variability'[i] = FZero

\* C19: the first sample of a channel since it became active sets prev_power
\* to the observed power and the baseline flag to true and leaves the
\* variability at 0; a channel without baseline has variability 0, and a
\* channel whose variability is not 0 has been sampled at least twice.
C19_BaselineSample ==
    /\ [][BaselineStep /\ VariabilityNeedsBaseline]_vars
    /\ [](\A i \in Channels :
            /\ first_reading[i] => variability[i] = FZero
            /\ variability[i] # FZero => Samples(i) >= 2)

\* channel i was sampled once, by a sample that observed a power other than
\* 0: its baseline is that power and its variability is still 0
C19_Witness ==
    \E i \in ActiveSchedulable :
        /\ pc = "recompute" /\ ch = i
        /\ Samples(i) = 1
        /\ ~first_reading[i]
        /\ power[i] # FZero
        /\ prev_power[i] = power[i]
        /\ variability[i] = FZero

\* the second sample of a channel made its variability non-zero
C19_SecondSampleReached ==
    \E i \in ActiveSchedulable : Samples(i) = 2 /\ variability[i] # FZero

\* a sample of a channel with a baseline: alpha = 3/10, so that
\* 10 * variability' = 3 * |observed - prev_power| + 7 * variability
EmaStep ==
    (IsSample /\ ~first_reading[ch]) =>
        LET delta == FAbs(FSub(power'[ch], prev_power[ch]))
        IN  /\ VARIABILITY_EMA_ALPHA = <<3, 10>>
            /\ FMul(<<10, 1>>, variability'[ch])
                  = FAdd(FMul(<<3, 1>>, delta), FMul(<<7, 1>>, variability[ch]))
            /\ \A i \in Channels \ {ch} : variability'[i] = variability[i]
            /\ ~first_reading'[ch]

\* after any sample prev_power of the sampled channel is the power just
\* recorded, and no other prev_power has changed
PrevPowerStep ==
    IsSample =>
        /\ prev_power'[ch] = power'[ch]
        /\ \A i \in Channels \ {ch} : prev_power'[i] = prev_power[i]

\* C20: every sample of a channel that has a baseline sets its variability
\* to alpha * |observed power - prev_power| + (1 - alpha) * (old variability)
\* and then prev_power to the observed power; after any sample prev_power of
\* the sampled channel equals the power just recorded.
C20_EmaUpdate == [][EmaStep /\ PrevPowerStep]_vars

\* the state after a third sample of a channel whose observed power changed
\* twice: 0.3 * 4 + 0.7 * (0.3 * 1) = 141/100 or 0.3 * 1 + 0.7 * (0.3 * 4) = 57/50
C20_Witness ==
    \E i \in ActiveSchedulable :
        /\ pc = "recompute" /\ ch = i
        /\ Samples(i) = 3
        /\ prev_power[i] = power[i]
        /\ variability[i] \in {<<141, 100>>, <<57, 50>>}

----------------------------------------------------------------------------
(* Who writes power *)

\* the step is a set_power call of the driver, made between two cycles
IsSetPower == pc = "select" /\ pc' = "select" /\ envs' = envs + 1 /\ active' = active

\* the channels whose power the step changes
PowerWritten == {i \in Channels : power'[i] # power[i]}

\* C21 (as stated): the power of a channel changes only by the sample of
\* that channel (it cannot change for a channel that was not the one sampled).
C21_PowerWrittenBySampleOnly ==
    [][\A i \in PowerWritten : IsSample /\ ch = i]_vars

\* C21 (amended): power is written only by set_power, one channel per call,
\* whether or not that channel was the one sampled; find_next_channel,
\* update_variability and recalculate_weights leave every power as it is,
\* and recalculate_weights computes the weights from the powers as they are
\* when it runs.
C21_PowerWrittenBySetPowerOnly ==
    [][/\ PowerWritten # {} => (IsSetPower /\ Cardinality(PowerWritten) = 1)
       /\ (pc = "recompute" /\ pc' = "select") => weight' = RecalculatedWeights]_vars

\* the weights were computed from a power set on a channel that has never
\* been sampled
C21_Witness ==
    /\ WeightsFresh
    /\ \E i \in ActiveSchedulable :
          /\ counts[i] = 0
          /\ first_reading[i]
          /\ power[i] # FZero
          /\ FLess(WEIGHT_MIN_BASE, weight[i])

----------------------------------------------------------------------------
(* A channel goes inactive and is made active again: the driver loop with   *)
(* a power reported at every sample, one set_active(c, false) and, later,   *)
(* set_active(c, true) for the same channel.                                *)

\* set_active(c, false), once in a run
GoInactive(c) ==
    /\ pc = "select"
    /\ envs = 0
    /\ c \in ActiveSchedulable
    /\ active' = active \ {c}
    /\ deficit' = [deficit EXCEPT ![c] = MZero]
    /\ weight' = [weight EXCEPT ![c] = FZero]
    /\ wait' = [wait EXCEPT ![c] = 0]
    /\ longest' = [longest EXCEPT ![c] = 0]
    /\ envs' = 1
    /\ UNCHANGED <<prev_power, variability, power, first_reading, pc, ch, counts,
                   calls, recomputed>>

\* set_active(c, true) for the channel that went inactive
Reactivate(c) ==
    /\ pc = "select"
    /\ envs = 1
    /\ c \in Schedulable \ active
    /\ counts[c] >= 1
    /\ active' = active \cup {c}
    /\ deficit' = [deficit EXCEPT ![c] = MZero]
    /\ variability' = [variability EXCEPT ![c] = FZero]
    /\ first_reading' = [first_reading EXCEPT ![c] = TRUE]
    /\ wait' = [wait EXCEPT ![c] = 0]
    /\ longest' = [longest EXCEPT ![c] = 0]
    /\ envs' = 2
    /\ recomputed' = FALSE
    /\ UNCHANGED <<weight, prev_power, power, pc, ch, counts, calls>>

FindNextChannelLife == FindNextChannelUpTo(MaxLifeCalls)

NextLife ==
    \/ FindNextChannelLife
    \/ \E p \in PowerValues : RecordSample(p)
    \/ RecalculateWeights
    \/ \E c \in Channels : GoInactive(c)
    \/ \E c \in Channels : Reactivate(c)

SpecLife == InitVarying /\ [][NextLife]_vars

\* the step makes channel i active
IsActivation(i) == i \notin active /\ i \in active'

\* channel i is active and has not been sampled since it became active
Unsampled(i) == i \in ActiveSchedulable /\ first_reading[i]

\* activation resets deficit, variability and the baseline flag of the channel
ActivationResets ==
    \A i \in Channels : IsActivation(i) =>
        /\ deficit'[i] = MZero
        /\ variability'[i] = FZero
        /\ first_reading'[i]

\* C22 (as stated): at the moment of activation the deficit and the
\* variability of the channel are 0 and it has no baseline; its first sample
\* after that only sets the baseline; and nothing of its earlier power
\* history influences its weight: until it is sampled again its weight is
\* the weight of a channel of which no power is known, the base weight.
C22_FreshStartNoPowerHistory ==
    /\ [][ActivationResets /\ BaselineStep]_vars
    /\ [](\A i \in Channels :
            (Unsampled(i) /\ WeightsFresh) => weight[i] = WEIGHT_MIN_BASE)

\* C22 (amended): at the moment of activation the deficit and the
\* variability of the channel are 0 and it has no baseline; its first sample
\* after that only sets the baseline, so that nothing of its earlier
\* variability and prev_power enters its weight; its power is not reset:
\* until it is sampled again its weight is the base weight plus the power
\* share of the power last reported for it.
C22_FreshStartKeepsLastPower ==
    /\ [][ActivationResets /\ BaselineStep]_vars
    /\ [](\A i \in Channels :
            /\ Unsampled(i) => variability[i] = FZero
            /\ (Unsampled(i) /\ WeightsFresh) =>
                   /\ weight[i] = FAdd(FMul(WEIGHT_POWER_SHARE, power_score(i)),
                                        WEIGHT_MIN_BASE)
                   /\ SumAbsPower # FZero =>
                          FMul(FSub(weight[i], WEIGHT_MIN_BASE), SumAbsPower)
                             = FMul(WEIGHT_POWER_SHARE, AbsPower(i)))

\* a channel that was sampled twice or more went inactive and is active
\* again: it has no baseline and no variability, and its weight carries the
\* power share of the power reported before it went inactive
C22_Witness ==
    /\ WeightsFresh
    /\ envs = 2
    /\ \E i \in ActiveSchedulable :
          /\ Unsampled(i)
          /\ counts[i] >= 2
          /\ deficit[i] = MZero
          /\ variability[i] = FZero
          /\ power[i] # FZero
          /\ FLess(WEIGHT_MIN_BASE, weight[i])

\* the first sample after the reactivation has set the baseline only
C22_BaselineAfterReactivation ==
    /\ pc = "recompute"
    /\ envs = 2
    /\ counts[ch] >= 3
    /\ ~first_reading[ch]
    /\ variability[ch] = FZero
    /\ prev_power[ch] = power[ch]
    /\ power[ch] # FZero

----------------------------------------------------------------------------
(* run_scheduler on a scheduler of five multiplexed channels whose powers   *)
(* were set once, before the run: the same three operations, their loops    *)
(* running over range(1, 6).                                                *)

\* the powers of the five channels, in some rotation
WidePowers == <<5, 11, 7, 1, 6>>

WideSchedulable == 1 .. Len(WidePowers)

WideChannels == 0 .. Len(WidePowers)

WideActive == {i \in WideSchedulable : i \in active}

WideNumActive == Cardinality(WideActive)

wide_total_abs_power == FSum([i \in WideChannels |-> FAbs(power[i])], WideActive)

wide_total_variability == FSum(variability, WideActive)

\* the weight an active channel gets
WideWeightFormula(i) ==
    FAdd(FAdd(FMul(WEIGHT_POWER_SHARE,
                   IF FPos(wide_total_abs_power)
                   THEN FDiv(FAbs(power[i]), wide_total_abs_power) ELSE FZero),
              FMul(WEIGHT_VARIABILITY,
                   IF FPos(wide_total_variability)
                   THEN FDiv(variability[i], wide_total_variability) ELSE FZero)),
         WEIGHT_MIN_BASE)

\* WDRRScheduler([1, 2, 3, 4, 5]), and the driver before its first call
WideConstructed ==
    /\ active = WideSchedulable
    /\ weight = [i \in WideChannels |-> FZero]
    /\ deficit = [i \in WideChannels |-> MZero]
    /\ prev_power = [i \in WideChannels |-> FZero]
    /\ variability = [i \in WideChannels |-> FZero]
    /\ first_reading = [i \in WideChannels |-> TRUE]
    /\ pc = "select"
    /\ ch = -1
    /\ counts = [i \in WideChannels |-> 0]
    /\ calls = 0
    /\ envs = 0
    /\ wait = [i \in WideChannels |-> 0]
    /\ longest = [i \in WideChannels |-> 0]
    /\ recomputed = FALSE

\* the set_power calls of the set-up: the powers of WidePowers, rotated
InitWide ==
    /\ WideConstructed
    /\ \E r \in WideSchedulable :
          power = [i \in WideChannels |->
                     IF i = 0 THEN FZero
                     ELSE <<WidePowers[((i + r) % Len(WidePowers)) + 1], 1>>]

\* ch = scheduler.find_next_channel(); counts[ch] += 1 when ch != -1
FindNextChannelWideUpTo(limit) ==
    /\ pc = "select"
    /\ calls < limit
    /\ LET d == [i \in WideChannels |->
                   IF i \in WideSchedulable THEN CreditedDeficit(i) ELSE deficit[i]]
           best == Scan(d, WideSchedulable, -1, MInt(BEST_DEF_START))
       IN  /\ deficit' = Decremented(d, best)
           /\ ch' = best
           /\ pc' = IF best # -1 THEN "record" ELSE "select"
           /\ counts' = IF best # -1 THEN [counts EXCEPT ![best] = @ + 1] ELSE counts
           /\ wait' = [i \in WideChannels |->
                         IF i = best \/ i \notin WideActive THEN 0 ELSE wait[i] + 1]
           /\ longest' = [i \in WideChannels |->
                            IF i \notin WideActive THEN 0
                            ELSE IF wait'[i] > longest[i] THEN wait'[i] ELSE longest[i]]
    /\ calls' = calls + 1
    /\ UNCHANGED <<active, weight, prev_power, variability, power, first_reading,
                   envs, recomputed>>

\* scheduler.recalculate_weights()
RecalculateWeightsWide ==
    /\ pc \in {"select", "recompute"}
    /\ weight' = [i \in WideChannels |->
                    IF i \in WideActive THEN WideWeightFormula(i) ELSE FZero]
    /\ pc' = "select"
    /\ recomputed' = TRUE
    /\ UNCHANGED <<active, deficit, prev_power, variability, power, first_reading,
                   ch, counts, calls, envs, wait, longest>>

FindNextChannelWide == FindNextChannelWideUpTo(MaxWideCalls)

NextWide ==
    \/ FindNextChannelWide
    \/ UpdateVariability
    \/ RecalculateWeightsWide

SpecWide == InitWide /\ [][NextWide]_vars

\* the waits of channel i never exceed (|active| - 1) / weight[i]
WaitWithinCredit(i) ==
    FLeq(FMul(<<wait[i], 1>>, weight[i]), <<WideNumActive - 1, 1>>)
    /\ FLeq(FMul(<<longest[i], 1>>, weight[i]), <<WideNumActive - 1, 1>>)

\* the end of a run, variability zero throughout
EndOfWideRun ==
    /\ pc = "select"
    /\ recomputed
    /\ calls = MaxWideCalls
    /\ \A i \in WideActive : variability[i] = FZero

\* C23 (as stated): under fixed weights the wait of an active channel is at
\* most c / weight[i], c = |active| - 1 for every channel, and by the end of
\* a run a channel of larger weight has had no longer a longest wait than a
\* channel of smaller weight.
C23_LargerWeightNeverWaitsLonger ==
    /\ (recomputed /\ \A i \in WideActive : variability[i] = FZero) =>
           \A i \in WideActive : WaitWithinCredit(i)
    /\ EndOfWideRun =>
           \A i, j \in WideActive :
               FLess(weight[j], weight[i]) => longest[i] <= longest[j]

\* C23 (amended): under fixed weights the wait of an active channel is at
\* most c / weight[i], c = |active| - 1 for every channel, so that a channel
\* of larger weight has the smaller bound; every channel has been returned
\* by the end of a run.
C23_WaitBoundedByCreditOverWeight ==
    /\ (recomputed /\ \A i \in WideActive : variability[i] = FZero) =>
           \A i \in WideActive : WaitWithinCredit(i)
    /\ EndOfWideRun => \A i \in WideActive : counts[i] >= 1 /\ longest[i] >= 1

\* the end of a run of five channels: a channel has had a longer longest
\* wait than a channel of smaller weight, both within their bounds
C23_Witness ==
    /\ EndOfWideRun
    /\ WideNumActive = 5
    /\ \A i \in WideActive : WaitWithinCredit(i)
    /\ \E i, j \in WideActive :
          /\ FLess(weight[j], weight[i])
          /\ longest[i] > longest[j]
          /\ counts[i] >= counts[j]
          /\ counts[j] >= 2

----------------------------------------------------------------------------
(* find_next_channel: what it leaves alone *)

\* C24: a call of find_next_channel leaves the weight, power, prev_power,
\* variability and baseline flag of every channel and the active set
\* unchanged: the deficits are all it writes in the scheduler.
C24_FindWritesDeficitsOnly ==
    [][IsFind => UNCHANGED <<weight, power, prev_power, variability, first_reading,
                             active>>]_vars

\* a call has just returned a channel that has a baseline, a variability
\* and a weight above the base weight, and has changed its deficit
C24_Witness ==
    /\ pc = "record"
    /\ ch \in ActiveSchedulable
    /\ NumActive >= 2
    /\ ~first_reading[ch]
    /\ variability[ch] # FZero
    /\ power[ch] # FZero
    /\ FLess(WEIGHT_MIN_BASE, weight[ch])
    /\ deficit[ch] # MZero

----------------------------------------------------------------------------
(* test_equal_power: five channels at 100 W each, recalculate_weights, then *)
(* run_scheduler(s, 1000)                                                   *)

InitEqual ==
    /\ WideConstructed
    /\ power = [i \in WideChannels |-> IF i \in WideSchedulable THEN <<100, 1>> ELSE FZero]

FindNextChannelEqual == FindNextChannelWideUpTo(MaxEqualCalls)

NextEqual ==
    \/ FindNextChannelEqual
    \/ UpdateVariability
    \/ RecalculateWeightsWide

SpecEqual == InitEqual /\ [][NextEqual]_vars

\* the run is over
EndOfEqualRun == pc = "select" /\ recomputed /\ calls = MaxEqualCalls

\* C26 (as stated): after the 1000 cycles every channel's selection count
\* is within 700-1300.
C26_CountsWithin700And1300 ==
    EndOfEqualRun => \A i \in WideActive : 700 <= counts[i] /\ counts[i] <= 1300

\* C26 (amended): after the 1000 cycles every channel's selection count is
\* within 0.7 and 1.3 times the mean count, cycles / 5 (within 140-260); the
\* counts differ by one at most.
C26_CountsWithin30PercentOfMean ==
    EndOfEqualRun =>
        /\ \A i \in WideActive :
              /\ 7 * calls <= 10 * WideNumActive * counts[i]
              /\ 10 * WideNumActive * counts[i] <= 13 * calls
        /\ \A i, j \in WideActive : counts[i] - counts[j] <= 1

\* the end of the run: five channels, each selected a fifth of the cycles
C26_Witness ==
    /\ EndOfEqualRun
    /\ WideNumActive = 5
    /\ \A i \in WideActive : power[i] = <<100, 1>> /\ counts[i] = calls \div 5

----------------------------------------------------------------------------
(* find_next_channel: what one call does to the deficits *)

\* the value of a deficit as one fraction
AsFraction(m) == FAdd(<<m.w, 1>>, m.f)

\* the call returned a channel
ReturnsChannel == IsFind /\ ch' # -1

\* deficit[i] after the call, less deficit[i] before it
DeficitChange(i) == FSub(AsFraction(deficit'[i]), AsFraction(deficit[i]))

\* C27: a call of find_next_channel that returns channel s changes
\* deficit[s] by weight[s] - 1.0 and the deficit of every other active
\* multiplexed channel i by weight[i], and leaves the deficit of every
\* inactive multiplexed channel at 0.
C27_DeficitBookkeeping ==
    [][ReturnsChannel =>
         \A i \in Schedulable :
             IF i \notin active THEN deficit'[i] = MZero
             ELSE IF i = ch' THEN DeficitChange(i) = FSub(weight[i], <<1, 1>>)
             ELSE DeficitChange(i) = weight[i]]_vars

\* a call has just returned a channel of a scheduler that has an inactive
\* multiplexed channel and several active ones with different non-zero
\* weights and non-zero deficits
C27_Witness ==
    /\ pc = "record"
    /\ calls >= 3
    /\ Schedulable \ active # {}
    /\ \A i \in Schedulable \ active : deficit[i] = MZero
    /\ deficit[ch].w < 0
    /\ \E j \in ActiveSchedulable :
          /\ j # ch
          /\ weight[j] # weight[ch]
          /\ weight[j] # FZero /\ weight[ch] # FZero
          /\ deficit[j] # MZero

----------------------------------------------------------------------------
(* The sum of the deficits of the active channels *)

DeficitSum == FSum([i \in Channels |-> AsFraction(deficit[i])], ActiveSchedulable)

\* the same sum once the call has returned
DeficitSumAfter == FSum([i \in Channels |-> AsFraction(deficit'[i])], ActiveSchedulable)

\* C28: a call of find_next_channel that returns a channel changes the sum
\* of the deficits of the active channels by the sum of their weights less
\* 1; the sum of the deficits is left as it was exactly when the weights of
\* the active channels sum to 1.
C28_DeficitSumLaw ==
    [][ReturnsChannel =>
         /\ FSub(DeficitSumAfter, DeficitSum) = FSub(SumWeights, <<1, 1>>)
         /\ (DeficitSumAfter = DeficitSum) <=> (SumWeights = <<1, 1>>)]_vars

\* a call has just returned a channel under weights that sum to 1: two
\* active channels, a non-zero total of |power| and of variability
C28_Witness ==
    /\ pc = "record"
    /\ NumActive = 2
    /\ SumAbsPower # FZero /\ SumVariability # FZero
    /\ SumWeights = <<1, 1>>
    /\ DeficitSum # FZero

\* a call has just returned a channel under weights that sum to less than 1
C28_DriftReached ==
    /\ pc = "record"
    /\ NumActive = 2
    /\ calls >= 3
    /\ FLess(FZero, SumWeights) /\ FLess(SumWeights, <<1, 1>>)
    /\ FLess(DeficitSum, <<-1, 1>>)

\* C28, the drift: with powers that do not change the weights do not change
\* once computed, and after k calls the sum of the deficits is
\* k * (sum of weights - 1), or (k - 1) * (sum of weights - 1) - 1 when the
\* first call was made before the weights were computed.
C28_LinearDriftFixedWeights ==
    (CycleEndFixedWeights /\ NumActive >= 1) =>
        LET drift == FSub(SumWeights, <<1, 1>>)
        IN  \/ DeficitSum = FMul(<<calls, 1>>, drift)
            \/ DeficitSum = FSub(FMul(<<calls - 1, 1>>, drift), <<1, 1>>)

----------------------------------------------------------------------------
(* The deficits right after a selection *)

\* find_next_channel has just returned channel ch
JustReturned == pc = "record"

\* deficit[j] <= deficit[s] + 1.0
WithinOneCredit(j, s) == ~MGreater(deficit[j], MAddF(deficit[s], <<1, 1>>))

----------------------------------------------------------------------------
(* recalculate_weights: bounds of the weights and their sum *)

\* the base of every active channel, the power share when some power is not
\* zero, the variability share when some variability is not zero
SharesHandedOut ==
    FAdd(FAdd(FMul(<<NumActive, 1>>, WEIGHT_MIN_BASE),
              IF FPos(SumAbsPower) THEN WEIGHT_POWER_SHARE ELSE FZero),
         IF FPos(SumVariability) THEN WEIGHT_VARIABILITY ELSE FZero)

\* C30: after recalculate_weights every weight is at least 0 and at most the
\* sum of the three coefficients, and the weights of the n active
\* multiplexed channels sum to n times the base coefficient, plus the power
\* coefficient when the total of |power| is positive, plus the variability
\* coefficient when the total of variability is positive.
C30_WeightBounds ==
    WeightsFresh =>
        /\ \A i \in Channels : FLeq(FZero, weight[i]) /\ FLeq(weight[i], CoefficientSum)
        /\ SumWeights = SharesHandedOut

\* recalculate_weights has run on three active channels with a non-zero
\* total of |power| and of variability: both shares are handed out, and the
\* weights are not all the same
C30_Witness ==
    /\ WeightsFresh
    /\ NumActive = 3
    /\ FPos(SumAbsPower) /\ FPos(SumVariability)
    /\ SumWeights = <<11, 10>>
    /\ \E i, j \in ActiveSchedulable : FLess(weight[i], weight[j])

\* recalculate_weights has run on a single active channel that has power and
\* variability: its weight is the sum of the three coefficients
C30_UpperBoundReached ==
    /\ WeightsFresh
    /\ NumActive = 1
    /\ \E i \in ActiveSchedulable : weight[i] = CoefficientSum

\* recalculate_weights has run on channels of which only the power total is
\* positive
C30_OneShareReached ==
    /\ WeightsFresh
    /\ NumActive = 2
    /\ FPos(SumAbsPower) /\ ~FPos(SumVariability)
    /\ SumWeights = <<3, 5>>

----------------------------------------------------------------------------
(* recalculate_weights as a function of the powers and the variabilities *)

\* the weights recalculate_weights leaves when the powers are pw and the
\* variabilities are vr
WeightsFrom(pw, vr) ==
    LET tp == FSum([i \in Channels |-> FAbs(pw[i])], ActiveSchedulable)
        tv == FSum(vr, ActiveSchedulable)
        ps(i) == IF FPos(tp) THEN FDiv(FAbs(pw[i]), tp) ELSE FZero
        vs(i) == IF FPos(tv) THEN FDiv(vr[i], tv) ELSE FZero
    IN  [i \in Channels |->
            IF i \in ActiveSchedulable
            THEN FAdd(FAdd(FMul(WEIGHT_POWER_SHARE, ps(i)),
                           FMul(WEIGHT_VARIABILITY, vs(i))),
                      WEIGHT_MIN_BASE)
            ELSE FZero]

\* the powers with that of channel c negated
PowerNegated(c) == [power EXCEPT ![c] = FNeg(power[c])]

\* channel i carries more load than channel j and varies at least as much
MoreLoad(i, j) ==
    /\ FLess(AbsPower(j), AbsPower(i))
    /\ FLeq(variability[j], variability[i])

\* C31: after recalculate_weights, an active channel of greater |power| and
\* of variability at least as great has the greater weight; and the weights
\* are those recalculate_weights would have left had the power of any one
\* channel been negated.
C31_WeightOrderFollowsLoad ==
    WeightsFresh =>
        /\ \A i, j \in ActiveSchedulable : MoreLoad(i, j) => FLess(weight[j], weight[i])
        /\ \A c \in Channels : WeightsFrom(PowerNegated(c), variability) = weight

\* recalculate_weights has run on active channels of which one has a
\* negative power, greater in magnitude than the positive power of another,
\* and a non-zero variability
C31_Witness ==
    /\ WeightsFresh
    /\ \E i, j \in ActiveSchedulable :
          /\ power[i] = <<-3, 1>> /\ power[j] = <<1, 1>>
          /\ MoreLoad(i, j)
          /\ variability[i] # FZero
          /\ FLess(weight[j], weight[i])

----------------------------------------------------------------------------
(* The channels outside the pool: channel 0 and the inactive channels *)

OutsidePool == {0} \cup (Channels \ active)

\* the values tried for the power of a channel outside the pool
OtherPowers == {<<p, 1>> : p \in PowerValues}

\* the values tried for its variability
OtherVariabilities == {FAbs(v) : v \in OtherPowers}

\* a step of recalculate_weights
IsRecalculate ==
    /\ pc \in {"select", "recompute"} /\ pc' = "select"
    /\ recomputed'
    /\ calls' = calls /\ envs' = envs

\* the first loop of find_next_channel under the weights w
CreditedWith(w) ==
    [i \in Channels |->
        IF i \in Schedulable
        THEN IF i \in active THEN MAddF(deficit[i], w[i]) ELSE MZero
        ELSE deficit[i]]

\* the channel find_next_channel returns under the weights w
SelectionWith(w) == BestChannel(CreditedWith(w))

\* the power and the variability of channel c replaced by other values
OtherInputs(c) ==
    {<<[power EXCEPT ![c] = v], variability>> : v \in OtherPowers}
        \cup {<<power, [variability EXCEPT ![c] = v]>> : v \in OtherVariabilities}

\* C32: the power and the variability of channel 0 and of the inactive
\* channels have no influence: with any other power or variability of one
\* of these channels recalculate_weights leaves the same weights, and the
\* call of find_next_channel that follows it returns the same channel
\* (prev_power is read by update_variability alone).
C32_OutsidePoolNoInfluence ==
    [][/\ IsRecalculate =>
            \A c \in OutsidePool : \A in \in OtherInputs(c) :
                WeightsFrom(in[1], in[2]) = weight'
       /\ (IsFind /\ recomputed) =>
            \A c \in OutsidePool : \A in \in OtherInputs(c) :
                SelectionWith(WeightsFrom(in[1], in[2])) = ch']_vars

\* recalculate_weights has run on a scheduler that has an inactive
\* multiplexed channel and two active ones of different weights, and
\* find_next_channel has returned a channel under these weights
C32_Witness ==
    /\ pc = "record" /\ recomputed
    /\ calls >= 4
    /\ Schedulable \ active # {}
    /\ NumActive = 2
    /\ \E i, j \in ActiveSchedulable :
          /\ FLess(weight[i], weight[j])
          /\ variability[j] # FZero
          /\ power[i] # FZero

\* recalculate_weights has run while a channel that has power and
\* variability was inactive: the one active channel has the whole power share
C32_InactiveWithHistoryReached ==
    /\ WeightsFresh
    /\ NumActive = 1
    /\ \E c \in Schedulable \ active : power[c] # FZero /\ variability[c] # FZero
    /\ \E i \in ActiveSchedulable :
          /\ power[i] # FZero
          /\ variability[i] = FZero
          /\ weight[i] = FAdd(WEIGHT_POWER_SHARE, WEIGHT_MIN_BASE)

----------------------------------------------------------------------------
(* recalculate_weights: what it leaves alone, and a second call *)

\* C33: recalculate_weights leaves deficit, power, prev_power, variability,
\* the baseline flags and the active set as they were, and a second call
\* right after it, reading the powers and variabilities the first one left,
\* would write the weights the first one wrote.
C33_RecalculateIdempotentFrame ==
    [][IsRecalculate =>
         /\ UNCHANGED <<deficit, power, prev_power, variability, first_reading, active>>
         /\ WeightsFrom(power', variability') = weight']_vars

\* recalculate_weights has run, at the end of a cycle, on channels that have
\* deficits, powers, baselines and variability, and has left different
\* non-zero weights
C33_Witness ==
    /\ WeightsFresh
    /\ calls >= 3
    /\ NumActive >= 2
    /\ \E i, j \in ActiveSchedulable :
          /\ deficit[i] # MZero /\ deficit[j] # MZero
          /\ ~first_reading[i] /\ ~first_reading[j]
          /\ power[i] # FZero
          /\ variability[i] # FZero
          /\ prev_power[i] # FZero
          /\ FLess(weight[j], weight[i])
    /\ RecalculatedWeights = weight

\* C33, the second call on the state the first one left: the weights
\* recalculate_weights would write are the weights the state has
C33_SecondCallChangesNothing == WeightsFresh => RecalculatedWeights = weight

----------------------------------------------------------------------------
(* update_variability: what it leaves alone *)

\* C34: update_variability(ch) leaves every deficit, every weight, every
\* power and the active set as they were, and changes the variability, the
\* prev_power and the baseline flag of no channel other than ch.
C34_UpdateVariabilityFrame ==
    [][IsSample =>
         /\ UNCHANGED <<deficit, weight, power, active>>
         /\ \A i \in Channels \ {ch} :
               /\ variability'[i] = variability[i]
               /\ prev_power'[i] = prev_power[i]
               /\ first_reading'[i] = first_reading[i]]_vars

\* update_variability has just written the variability and the prev_power
\* of the channel returned, on a scheduler that has another active channel
\* with a deficit and a power of its own
C34_Witness ==
    /\ pc = "recompute"
    /\ variability[ch] # FZero
    /\ prev_power[ch] # FZero
    /\ ~first_reading[ch]
    /\ \E j \in ActiveSchedulable :
          /\ j # ch
          /\ deficit[j] # MZero
          /\ variability[j] = FZero

\* update_variability has run while the power of another channel differed
\* from its prev_power
C34_OtherPowerPending ==
    /\ pc = "recompute"
    /\ \E j \in Channels \ {ch} : power[j] # prev_power[j]

----------------------------------------------------------------------------
(* Variability and baseline over the life of a channel *)

VariabilityNonNegative == \A i \in Channels : FLeq(FZero, variability[i])

\* channel i had a baseline and has none after the step
BaselineCleared(i) == ~first_reading[i] /\ first_reading'[i]

\* C35 (as stated): the variability of every channel is at least 0 in every
\* state, and no operation clears the baseline flag of a channel once its
\* first sample has set it.
C35_BaselineNeverCleared ==
    /\ []VariabilityNonNegative
    /\ [][\A i \in Channels : ~BaselineCleared(i)]_vars

\* C35 (amended): the variability of every channel is at least 0 in every
\* state, and the baseline flag of a channel, once set by its first sample,
\* is cleared by the activation of the channel and by nothing else.
C35_BaselineClearedByActivationOnly ==
    /\ []VariabilityNonNegative
    /\ [][\A i \in Channels : BaselineCleared(i) => IsActivation(i)]_vars

\* a channel that was sampled has been switched off and on again and has no
\* baseline, while another channel has a baseline and a variability above 0
C35_Witness ==
    /\ \E c \in ActiveSchedulable : counts[c] >= 1 /\ first_reading[c]
    /\ \E i \in Schedulable : ~first_reading[i] /\ FLess(FZero, variability[i])

----------------------------------------------------------------------------
(* run_scheduler on powers that do not change *)

\* the first call of the run was made before the weights were computed:
\* the sum of the deficits is then not calls * (sum of weights - 1)
ColdStart == DeficitSum # FMul(<<calls, 1>>, FSub(SumWeights, <<1, 1>>))

\* the cycles the run has made under the weights it has
WarmCycles == IF ColdStart THEN calls - 1 ELSE calls

LowestActive == CHOOSE i \in ActiveSchedulable : \A j \in ActiveSchedulable : i <= j

\* after k cycles the share of every active channel is a whole number of
\* selections
WholeShares(k) ==
    \A i \in ActiveSchedulable : FMul(<<k, 1>>, DriftFreeShare(i))[2] = 1

\* the deficit of channel i, the unit of the cold first call given back
DeficitSinceWarm(i) ==
    IF ColdStart /\ i = LowestActive THEN MAddF(deficit[i], <<1, 1>>) ELSE deficit[i]

\* the deficits are, up to the drift they share, those the run had when its
\* first cycle under the weights began: the run repeats from here
RunRepeats ==
    \A i, j \in ActiveSchedulable : DeficitSinceWarm(i) = DeficitSinceWarm(j)

C36_ColdRunRepeats ==
    /\ CycleEndFixedWeights
    /\ NumActive = 3
    /\ ColdStart
    /\ calls >= 4 /\ WholeShares(calls - 1)
    /\ RunRepeats

\* the deficits of a run are not back before its shares are whole
C36_NotBackBefore ==
    /\ CycleEndFixedWeights
    /\ NumActive = 2
    /\ calls >= 1
    /\ ~WholeShares(WarmCycles)
    /\ ~RunRepeats

----------------------------------------------------------------------------
(* The first call on a new scheduler *)

\* recalculate_weights has not run since the scheduler was constructed
NeverRecalculated == ~recomputed

\* the first call of find_next_channel has been made, before any
\* recalculate_weights
AfterColdFirstCall == calls = 1 /\ NeverRecalculated /\ NumActive >= 1

\* C37: on a new scheduler on which recalculate_weights has not run every
\* weight is 0, and the first call of find_next_channel returns the active
\* multiplexed channel of lowest index, whatever the powers, and leaves it
\* with a deficit of -1.0 (the other deficits stay 0).
C37_ColdFirstSelection ==
    /\ NeverRecalculated => \A i \in Channels : weight[i] = FZero
    /\ AfterColdFirstCall =>
          /\ ch = LowestActive
          /\ deficit[ch] = MInt(-1)
          /\ \A j \in Channels \ {ch} : deficit[j] = MZero

\* the first call has returned the lowest of several active channels while
\* a channel of higher index has more power
C37_Witness ==
    /\ pc = "record"
    /\ AfterColdFirstCall
    /\ NumActive >= 2
    /\ ch = LowestActive
    /\ deficit[ch] = MInt(-1)
    /\ \E j \in ActiveSchedulable : j > ch /\ FLess(AbsPower(ch), AbsPower(j))

\* after recalculate_weights the first call returns the channel of most
\* power, not the lowest one
C37_WarmFirstCallDiffers ==
    /\ pc = "record"
    /\ calls = 1 /\ recomputed
    /\ ch # LowestActive

============================================================================
